---------------------------- MODULE Spec2Model ----------------------------
(***************************************************************************)
(* Model of timestamp_to_premiere.py: the OBS timestamp (JSON Lines) to    *)
(* Premiere Pro marker XML converter.                                      *)
(*                                                                         *)
(* The program is a batch pipeline: parse_timestamps reads the input file  *)
(* line by line, main derives the frame rate and the output path (calling  *)
(* find_latest_video_file), and create_premiere_xml builds, serialises and *)
(* writes the XML tree.                                                    *)
(*                                                                         *)
(* Python floats are IEEE-754 binary64 values.  They are modelled exactly: *)
(* a double is a sign, a 53-bit mantissa held as a multi-limb natural and  *)
(* a binary exponent, and division, multiplication and the decimal         *)
(* literals round to nearest, ties to even, as the interpreter does.       *)
(* Strings are sequences of one-character strings, so that str.lower(),    *)
(* int(str) and the XML end-of-line normalisation are computed.            *)
(***************************************************************************)
EXTENDS Integers, Sequences, FiniteSets, TLC

(***************************************************************************)
(* Multi-limb naturals: little-endian sequences of limbs in 0..Base-1,     *)
(* without leading (most significant) zero limbs; << >> is zero.           *)
(***************************************************************************)
Base == 2^15

Pow2(k) == 2^k

RECURSIVE NatBitLen(_)
NatBitLen(n) == IF n = 0 THEN 0 ELSE 1 + NatBitLen(n \div 2)

LimbBits == NatBitLen(Base - 1)

RECURSIVE BigNorm(_)
BigNorm(a) ==
    IF a = << >> THEN << >>
    ELSE IF a[Len(a)] = 0 THEN BigNorm(SubSeq(a, 1, Len(a) - 1))
    ELSE a

RECURSIVE BigFromNat(_)
BigFromNat(n) ==
    IF n = 0 THEN << >> ELSE <<n % Base>> \o BigFromNat(n \div Base)

RECURSIVE BigToNat(_)
BigToNat(a) ==
    IF a = << >> THEN 0 ELSE a[1] + Base * BigToNat(Tail(a))

RECURSIVE BigMulSmallC(_, _, _)
BigMulSmallC(a, s, carry) ==
    IF a = << >> THEN BigFromNat(carry)
    ELSE LET t == a[1] * s + carry
         IN  <<t % Base>> \o BigMulSmallC(Tail(a), s, t \div Base)

BigMulSmall(a, s) == BigNorm(BigMulSmallC(a, s, 0))

RECURSIVE BigAddC(_, _, _)
BigAddC(a, b, carry) ==
    IF a = << >> /\ b = << >> THEN BigFromNat(carry)
    ELSE LET x == IF a = << >> THEN 0 ELSE a[1]
             y == IF b = << >> THEN 0 ELSE b[1]
             t == x + y + carry
         IN  <<t % Base>>
               \o BigAddC(IF a = << >> THEN << >> ELSE Tail(a),
                          IF b = << >> THEN << >> ELSE Tail(b),
                          t \div Base)

BigAdd(a, b) == BigNorm(BigAddC(a, b, 0))

RECURSIVE BigMul(_, _)
BigMul(a, b) ==
    IF a = << >> \/ b = << >> THEN << >>
    ELSE BigAdd(BigMulSmall(a, b[1]),
                LET hi == BigMul(a, Tail(b))
                IN  IF hi = << >> THEN << >> ELSE <<0>> \o hi)

\* floor(a / d) and a mod d for a limb-sized divisor d, most significant limb first
RECURSIVE BigDivSmallR(_, _, _)
BigDivSmallR(a, d, r) ==
    IF a = << >> THEN [q |-> << >>, r |-> r]
    ELSE LET cur  == r * Base + a[Len(a)]
             rest == BigDivSmallR(SubSeq(a, 1, Len(a) - 1), d, cur % d)
         IN  [q |-> rest.q \o <<cur \div d>>, r |-> rest.r]

BigDivSmall(a, d) ==
    LET res == BigDivSmallR(a, d, 0)
    IN  [q |-> BigNorm(res.q), r |-> res.r]

BigBitLen(a) ==
    IF a = << >> THEN 0
    ELSE LimbBits * (Len(a) - 1) + NatBitLen(a[Len(a)])

BigIsOdd(a) == a # << >> /\ a[1] % 2 = 1

\* a * 2^k
BigShiftLeft(a, k) ==
    IF a = << >> THEN << >>
    ELSE [i \in 1..(k \div LimbBits) |-> 0] \o BigMulSmall(a, Pow2(k % LimbBits))

\* floor(a / 2^k), and whether any one bit was shifted out
BigShiftRight(a, k) ==
    LET drop == k \div LimbBits
        kept == IF drop >= Len(a) THEN << >> ELSE SubSeq(a, drop + 1, Len(a))
        lost == \E i \in 1..Len(a) : i <= drop /\ a[i] # 0
        dv   == BigDivSmall(kept, Pow2(k % LimbBits))
    IN  [q |-> dv.q, sticky |-> lost \/ dv.r # 0]


(***************************************************************************)
(* IEEE-754 binary64 values in the normal range: zero is m = << >>, e = 0; *)
(* any other value is (-1)^neg * m * 2^e with 2^52 <= m < 2^53.            *)
(***************************************************************************)
MantBits == 53

DoubleZero == [neg |-> FALSE, m |-> << >>, e |-> 0]

\* The double nearest to (-1)^neg * (q + f) * 2^e, where 0 <= f < 1 and
\* f # 0 exactly when sticky; ties go to the even mantissa.
RoundToDouble(neg, q, e, sticky) ==
    LET len == BigBitLen(q)
    IN  IF q = << >> THEN DoubleZero
        ELSE IF len <= MantBits
        THEN [neg |-> neg, m |-> BigShiftLeft(q, MantBits - len),
              e |-> e - (MantBits - len)]
        ELSE LET s    == len - MantBits
                 sr   == BigShiftRight(q, s - 1)
                 rb   == BigIsOdd(sr.q)
                 keep == BigShiftRight(sr.q, 1).q
                 st   == sr.sticky \/ sticky
                 up   == rb /\ (st \/ BigIsOdd(keep))
                 m1   == IF up THEN BigAdd(keep, <<1>>) ELSE keep
             IN  IF BigBitLen(m1) > MantBits
                 THEN [neg |-> neg, m |-> BigShiftRight(m1, 1).q, e |-> e + s + 1]
                 ELSE [neg |-> neg, m |-> m1, e |-> e + s]

Abs(n) == IF n < 0 THEN -n ELSE n

\* float(n) for an int n
DoubleFromInt(n) == RoundToDouble(n < 0, BigFromNat(Abs(n)), 0, FALSE)

\* The correctly rounded quotient a / b of two ints, 0 < Abs(b) <= Base:
\* Python's int / int, int / float-of-int, and a decimal literal or
\* float("a.b") read as a / 10^k.
GuardLimbs == 2 + (MantBits \div LimbBits) + 1

DoubleDivInts(a, b) ==
    LET num == [i \in 1..GuardLimbs |-> 0] \o BigFromNat(Abs(a))
        dv  == BigDivSmall(num, Abs(b))
    IN  IF a = 0 THEN DoubleZero
        ELSE RoundToDouble((a < 0) # (b < 0), dv.q, -(LimbBits * GuardLimbs),
                           dv.r # 0)

\* x * y on doubles
DoubleMul(x, y) ==
    RoundToDouble(x.neg # y.neg, BigMul(x.m, y.m), x.e + y.e, FALSE)

\* int(x): truncation toward zero
DoubleTrunc(x) ==
    LET mag == IF x.e >= 0 THEN BigToNat(BigShiftLeft(x.m, x.e))
               ELSE BigToNat(BigShiftRight(x.m, -x.e).q)
    IN  IF x.neg THEN -mag ELSE mag


(***************************************************************************)
(* Strings are sequences of one-character strings.                         *)
(***************************************************************************)
UpperChars == <<"A","B","C","D","E","F","G","H","I","J","K","L","M",
                "N","O","P","Q","R","S","T","U","V","W","X","Y","Z">>

LowerChars == <<"a","b","c","d","e","f","g","h","i","j","k","l","m",
                "n","o","p","q","r","s","t","u","v","w","x","y","z">>

DigitChars == <<"0","1","2","3","4","5","6","7","8","9">>

WhitespaceChars == {" ", "\t", "\n", "\r", "\f"}

InSeq(c, seq) == \E i \in 1..Len(seq) : seq[i] = c

IndexOf(c, seq) == CHOOSE i \in 1..Len(seq) : seq[i] = c

\* str.lower()
LowerChar(c) == IF InSeq(c, UpperChars) THEN LowerChars[IndexOf(c, UpperChars)] ELSE c

Lower(s) == [i \in 1..Len(s) |-> LowerChar(s[i])]

\* str.endswith(suffix)
EndsWith(s, suffix) ==
    Len(s) >= Len(suffix) /\ SubSeq(s, Len(s) - Len(suffix) + 1, Len(s)) = suffix

\* str.strip()
RECURSIVE LStrip(_)
LStrip(s) ==
    IF s # << >> /\ s[1] \in WhitespaceChars THEN LStrip(Tail(s)) ELSE s

RECURSIVE RStrip(_)
RStrip(s) ==
    IF s # << >> /\ s[Len(s)] \in WhitespaceChars
    THEN RStrip(SubSeq(s, 1, Len(s) - 1)) ELSE s

Strip(s) == LStrip(RStrip(s))

(***************************************************************************)
(* JSON values as json.loads returns them.  t is the Python type; n / d    *)
(* is the number (a float is the double nearest to n / d), s the string.   *)
(* t = "absent" marks a key that the object does not hold.                 *)
(***************************************************************************)
JV(t, n, d, s) == [t |-> t, n |-> n, d |-> d, s |-> s]

Absent == JV("absent", 0, 1, << >>)

JInt(n) == JV("int", n, 1, << >>)

JFloat(n, d) == JV("float", n, d, << >>)

JInf == JV("inf", 0, 1, << >>)

JNaN == JV("nan", 0, 1, << >>)

JStr(s) == JV("str", 0, 1, s)

JNull == JV("null", 0, 1, << >>)

JBool(b) == JV("bool", IF b THEN 1 ELSE 0, 1, << >>)

JList == JV("list", 0, 1, << >>)

JDict == JV("dict", 0, 1, << >>)

\* int(str): optional surrounding whitespace, an optional sign, then decimal
\* digits, single underscores allowed between digits
RECURSIVE DigitsValue(_, _, _)
DigitsValue(s, acc, prevDigit) ==
    IF s = << >> THEN [ok |-> prevDigit, val |-> acc]
    ELSE IF InSeq(s[1], DigitChars)
    THEN DigitsValue(Tail(s), 10 * acc + (IndexOf(s[1], DigitChars) - 1), TRUE)
    ELSE IF s[1] = "_" /\ prevDigit THEN DigitsValue(Tail(s), acc, FALSE)
    ELSE [ok |-> FALSE, val |-> 0]

IntFromStr(s) ==
    LET t    == Strip(s)
        neg  == t # << >> /\ t[1] = "-"
        body == IF t # << >> /\ t[1] \in {"-", "+"} THEN Tail(t) ELSE t
        dv   == DigitsValue(body, 0, FALSE)
    IN  IF dv.ok THEN [exc |-> "", val |-> IF neg THEN -dv.val ELSE dv.val]
        ELSE [exc |-> "ValueError", val |-> 0]

\* int(v) for a JSON value v: the value, or the exception raised
PyInt(v) ==
    CASE v.t \in {"int", "bool"} -> [exc |-> "", val |-> v.n]
      [] v.t = "float" -> [exc |-> "", val |-> DoubleTrunc(DoubleDivInts(v.n, v.d))]
      [] v.t = "inf"   -> [exc |-> "OverflowError", val |-> 0]
      [] v.t = "nan"   -> [exc |-> "ValueError", val |-> 0]
      [] v.t = "str"   -> IntFromStr(v.s)
      [] OTHER         -> [exc |-> "TypeError", val |-> 0]


(***************************************************************************)
(* The program state.                                                      *)
(***************************************************************************)
VARIABLES
    args,            \* argparse namespace: input, output, fps
    input_file,      \* the input file: whether it opens, and its lines
    rec_fs,          \* the file system under the recording directories
    out_writable,    \* whether open(output_path, 'w') succeeds
    pc,              \* the statement about to run
    caller,          \* who called the running function: "main" or "none"
    exception,       \* the uncaught exception that ended the run, or ""
    line_num,        \* parse_timestamps: lines consumed so far
    timestamps,      \* parse_timestamps: the marker list being built
    metadata,        \* parse_timestamps: the metadata dict
    parse_ret,       \* parse_timestamps: the returned (metadata, timestamps)
    fps,             \* main: the effective frame rate (a double)
    output_file,     \* main: the output path
    video_file,      \* main: find_latest_video_file's result
    exit_code,       \* main: the process exit status, -1 while running
    emit_calls,      \* number of calls of create_premiere_xml
    recording_dir,   \* find_latest_video_file: argument
    metadata_timestamp, \* find_latest_video_file: argument
    metadata_time,   \* find_latest_video_file: parsed epoch, or none
    video_files,     \* find_latest_video_file: (filepath, mtime) list
    scan_idx,        \* find_latest_video_file: index into the match loop
    resolve_ret,     \* find_latest_video_file: the result
    e_args,          \* create_premiere_xml: timestamps, output_path, fps
    xml,             \* create_premiere_xml: the element tree
    emit_ret,        \* create_premiere_xml: the result
    out_file         \* the output file on disk

envVars == <<args, input_file, rec_fs, out_writable>>

parseVars == <<line_num, timestamps, metadata, parse_ret>>

mainVars == <<fps, output_file, video_file, exit_code, emit_calls>>

resolveVars == <<recording_dir, metadata_timestamp, metadata_time, video_files,
                 scan_idx, resolve_ret>>

emitVars == <<e_args, xml, emit_ret, out_file>>

vars == <<envVars, pc, caller, exception, parseVars, mainVars, resolveVars,
          emitVars>>


(***************************************************************************)
(* parse_timestamps                                                        *)
(***************************************************************************)
\* A metadata dict: the keys it holds and the values of the four known ones
MD(keys, recording_path, timestamp, fps_num, fps_den) ==
    [keys |-> keys, recording_path |-> recording_path, timestamp |-> timestamp,
     fps_num |-> fps_num, fps_den |-> fps_den]

EmptyDict == MD({}, << >>, "", 0, 0)

\* One line of the input file after line.strip() and json.loads:
\*   text: "blank" (empty after strip), "invalid" (not JSON) or "json";
\*   top:  the type of the JSON value: "dict", "container" (a list or a
\*         string, on which `key in data` is a membership test) or "scalar"
\*         (a number, true, false or null, on which it raises TypeError);
\*   contains: for a container, the keys k with `k in data`;
\*   the other fields: for a dict, the value under each key, or Absent.
Line(text, top, contains, md_value, md, timestamp_ms, comment, name, color) ==
    [text |-> text, top |-> top, contains |-> contains, metadata |-> md_value,
     md |-> md, timestamp_ms |-> timestamp_ms, comment |-> comment,
     name |-> name, color |-> color]

BlankLine == Line("blank", "scalar", {}, Absent, EmptyDict, Absent, Absent, Absent, Absent)

InvalidLine == Line("invalid", "scalar", {}, Absent, EmptyDict, Absent, Absent, Absent, Absent)

ScalarLine == Line("json", "scalar", {}, Absent, EmptyDict, Absent, Absent, Absent, Absent)

ContainerLine(contains) ==
    Line("json", "container", contains, Absent, EmptyDict, Absent, Absent, Absent, Absent)

MarkerLine(timestamp_ms, comment, name, color) ==
    Line("json", "dict", {}, Absent, EmptyDict, timestamp_ms, comment, name, color)

MetadataLine(md) ==
    Line("json", "dict", {}, JDict, md, Absent, Absent, Absent, Absent)

BadMetadataLine(v) ==
    Line("json", "dict", {}, v, EmptyDict, Absent, Absent, Absent, Absent)

\* `key in data`
KeyIn(key, data) ==
    IF data.top = "dict" THEN data[key].t # "absent" ELSE key \in data.contains

\* data.get(key, default)
DictGet(data, key, default) ==
    IF data[key].t # "absent" THEN data[key] ELSE default

\* The exceptions the per-line handlers catch (lines 97-102); JSONDecodeError
\* is a ValueError.  Any other exception leaves the loop.
CaughtPerLine == {"JSONDecodeError", "ValueError", "TypeError"}

\* ParseLine with the metadata assignment of line 78 skipped once a
\* metadata record has been read (the first record wins)
ParseLine_FirstWins(line, md, ts) ==
    LET coerced == PyInt(line.timestamp_ms)
        exc == IF line.text = "blank" THEN ""
               ELSE IF line.text = "invalid" THEN "JSONDecodeError"
               ELSE IF line.top = "scalar" THEN "TypeError"
               ELSE IF KeyIn("metadata", line)
               THEN (IF line.top # "dict" THEN "TypeError"
                     ELSE IF line.metadata.t # "dict" THEN "AttributeError"
                     ELSE "")
               ELSE IF ~KeyIn("timestamp_ms", line) THEN ""
               ELSE IF line.top # "dict" THEN "TypeError"
               ELSE coerced.exc
        isMd == line.text = "json" /\ line.top = "dict" /\ line.metadata.t = "dict"
        isMarker == exc = "" /\ line.text = "json" /\ line.top = "dict"
                    /\ line.metadata.t = "absent" /\ line.timestamp_ms.t # "absent"
    IN  [exc |-> exc,
         metadata |-> IF isMd /\ md = EmptyDict THEN line.md ELSE md,
         timestamps |-> IF isMarker
                        THEN Append(ts, [timestamp_ms |-> coerced.val,
                                         comment |-> DictGet(line, "comment", JStr(<< >>)),
                                         name |-> DictGet(line, "name", JStr(<< >>)),
                                         color |-> DictGet(line, "color",
                                                           JStr(<<"b","l","u","e">>))])
                        ELSE ts]

\* The body of the loop over the lines (lines 69-102) for one line: the
\* exception raised ("" if none), and the metadata and marker list after it.
ParseLine(line, md, ts) ==
    LET same == [exc |-> "", metadata |-> md, timestamps |-> ts]
        coerced == PyInt(line.timestamp_ms)
    IN  IF line.text = "blank" THEN same
        ELSE IF line.text = "invalid"
        THEN [same EXCEPT !.exc = "JSONDecodeError"]
        ELSE IF line.top = "scalar"
        THEN [same EXCEPT !.exc = "TypeError"]
        ELSE IF KeyIn("metadata", line)
        THEN IF line.top # "dict" THEN [same EXCEPT !.exc = "TypeError"]
             ELSE IF line.metadata.t # "dict"
             THEN [exc |-> "AttributeError", metadata |-> line.metadata,
                   timestamps |-> ts]
             ELSE [same EXCEPT !.metadata = line.md]
        ELSE IF ~KeyIn("timestamp_ms", line) THEN same
        ELSE IF line.top # "dict" THEN [same EXCEPT !.exc = "TypeError"]
        ELSE IF coerced.exc # "" THEN [same EXCEPT !.exc = coerced.exc]
        ELSE [same EXCEPT !.timestamps =
                Append(ts, [timestamp_ms |-> coerced.val,
                            comment |-> DictGet(line, "comment", JStr(<< >>)),
                            name |-> DictGet(line, "name", JStr(<< >>)),
                            color |-> DictGet(line, "color",
                                              JStr(<<"b","l","u","e">>))])]

\* What a function hands back to its caller
Return(label) == IF caller = "main" THEN label ELSE "done"

\* open(file_path) (lines 66-67, 104-109): a missing or unreadable file
\* returns (None, None)
ParseOpen ==
    /\ pc = "parse_open"
    /\ line_num' = 0
    /\ timestamps' = << >>
    /\ metadata' = EmptyDict
    /\ IF input_file.state = "ok"
       THEN /\ pc' = "parse_loop"
            /\ UNCHANGED parse_ret
       ELSE /\ pc' = Return("main_parsed")
            /\ parse_ret' = [none |-> TRUE, metadata |-> EmptyDict,
                             timestamps |-> << >>]
    /\ UNCHANGED <<envVars, caller, exception, mainVars, resolveVars, emitVars>>

\* One iteration of the loop over the lines
ParseReadLine ==
    /\ pc = "parse_loop"
    /\ line_num < Len(input_file.lines)
    /\ LET res == ParseLine(input_file.lines[line_num + 1], metadata, timestamps)
       IN  /\ line_num' = line_num + 1
           /\ metadata' = res.metadata
           /\ timestamps' = res.timestamps
           /\ IF res.exc \in CaughtPerLine \cup {""}
              THEN /\ pc' = "parse_loop"
                   /\ UNCHANGED parse_ret
              ELSE /\ pc' = Return("main_parsed")
                   /\ parse_ret' = [none |-> TRUE, metadata |-> EmptyDict,
                                    timestamps |-> << >>]
    /\ UNCHANGED <<envVars, caller, exception, mainVars, resolveVars, emitVars>>

\* return metadata, timestamps (line 111)
ParseReturn ==
    /\ pc = "parse_loop"
    /\ line_num = Len(input_file.lines)
    /\ parse_ret' = [none |-> FALSE, metadata |-> metadata,
                     timestamps |-> timestamps]
    /\ pc' = Return("main_parsed")
    /\ UNCHANGED <<envVars, caller, exception, line_num, timestamps, metadata,
                   mainVars, resolveVars, emitVars>>


(***************************************************************************)
(* ms_to_frames, get_color_code                                            *)
(***************************************************************************)
\* int((milliseconds / 1000.0) * fps), in double arithmetic
ms_to_frames(milliseconds, fps_value) ==
    DoubleTrunc(DoubleMul(DoubleDivInts(milliseconds, 1000), fps_value))

Blue == <<"b","l","u","e">>

COLOR_MAP ==
    (Blue :> "4294741314")
    @@ (<<"c","y","a","n">> :> "4294940928")
    @@ (<<"g","r","e","e","n">> :> "4278255360")
    @@ (<<"y","e","l","l","o","w">> :> "4278255615")
    @@ (<<"r","e","d">> :> "4294901760")
    @@ (<<"m","a","g","e","n","t","a">> :> "4294902015")
    @@ (<<"p","u","r","p","l","e">> :> "4286578816")
    @@ (<<"o","r","a","n","g","e">> :> "4294924800")

\* COLOR_MAP.get(color_name.lower(), COLOR_MAP["blue"]) for a str color_name
get_color_code(color_name) ==
    IF Lower(color_name) \in DOMAIN COLOR_MAP
    THEN COLOR_MAP[Lower(color_name)]
    ELSE COLOR_MAP[Blue]

(***************************************************************************)
(* create_premiere_xml                                                     *)
(***************************************************************************)
\* The float literals of line 193 and line 194
NtscRates == {DoubleDivInts(23976, 1000), DoubleDivInts(2997, 100),
              DoubleDivInts(5994, 100)}

\* ntsc = fps in [23.976, 29.97, 59.94]
IsNtsc(fps_value) == fps_value \in NtscRates

\* timebase = int(fps) if not ntsc else int(fps * 1.001)
Timebase(fps_value) ==
    IF ~IsNtsc(fps_value) THEN DoubleTrunc(fps_value)
    ELSE DoubleTrunc(DoubleMul(fps_value, DoubleDivInts(1001, 1000)))

RECURSIVE MaxTimestamp(_)
MaxTimestamp(ts) ==
    IF Len(ts) = 1 THEN ts[1].timestamp_ms
    ELSE LET rest == MaxTimestamp(Tail(ts))
         IN  IF ts[1].timestamp_ms >= rest THEN ts[1].timestamp_ms ELSE rest

\* duration = ms_to_frames(max_timestamp_ms + 60000, fps)
Duration(ts, fps_value) == ms_to_frames(MaxTimestamp(ts) + 60000, fps_value)

RateBlock(fps_value) == [timebase |-> Timebase(fps_value), ntsc |-> IsNtsc(fps_value)]

NoRate == [timebase |-> 0, ntsc |-> FALSE]

NoXml == [duration |-> 0, seq_rate |-> NoRate, video_rate |-> NoRate,
          gen_rate |-> NoRate, tc_rate |-> NoRate, gen_duration |-> 0,
          gen_end |-> 0, gen_out |-> 0, gen_markers |-> << >>,
          seq_markers |-> << >>]

\* The tree before the marker loops (lines 204-302, 316-339); the timecode
\* block is appended between the two loops and reads nothing they write
XmlSkeleton(ts, fps_value) ==
    [duration |-> Duration(ts, fps_value),
     seq_rate |-> RateBlock(fps_value),
     video_rate |-> RateBlock(fps_value),
     gen_rate |-> RateBlock(fps_value),
     tc_rate |-> RateBlock(fps_value),
     gen_duration |-> Duration(ts, fps_value),
     gen_end |-> Duration(ts, fps_value),
     gen_out |-> Duration(ts, fps_value),
     gen_markers |-> << >>,
     seq_markers |-> << >>]

\* One <marker> element (lines 306-314 and 343-351)
MarkerElement(t, fps_value) ==
    [comment |-> t.comment, name |-> t.name,
     in |-> ms_to_frames(t.timestamp_ms, fps_value), out |-> -1,
     pproColor |-> get_color_code(t.color.s)]

\* Python truthiness of a JSON value
Truthy(v) ==
    CASE v.t \in {"int", "float", "bool", "list", "dict"} -> v.n # 0
      [] v.t = "str" -> v.s # << >>
      [] v.t \in {"inf", "nan"} -> TRUE
      [] OTHER -> FALSE

\* ElementTree writes an element's text only if it is truthy, and raises
\* TypeError for a truthy text that is not a str
Serializable(v) == Truthy(v) => v.t = "str"

\* Characters that are not XML 1.0 Char: minidom.parseString (expat) rejects
\* the serialised tree.  "<U+0001>" stands for the one-character string
\* U+0001, "<U+001B>" for U+001B.
IllegalXmlChars == {"<U+0001>", "<U+001B>"}

WellFormed(v) == v.t = "str" => \A i \in 1..Len(v.s) : v.s[i] \notin IllegalXmlChars

\* The text of an element as the parser hands it to the pretty-printer:
\* an end of line written "\r\n" or "\r" is read as "\n"
RECURSIVE NormalizeEol(_)
NormalizeEol(s) ==
    IF s = << >> THEN << >>
    ELSE IF s[1] = "\r"
    THEN <<"\n">> \o NormalizeEol(IF Len(s) >= 2 /\ s[2] = "\n"
                                  THEN SubSeq(s, 3, Len(s)) ELSE Tail(s))
    ELSE <<s[1]>> \o NormalizeEol(Tail(s))

XmlText(v) == IF Truthy(v) THEN NormalizeEol(v.s) ELSE << >>

WrittenMarker(el) ==
    [comment |-> XmlText(el.comment), name |-> XmlText(el.name),
     in |-> el.in, out |-> el.out, pproColor |-> el.pproColor]

\* The document written to disk (lines 353-365)
FinalXml(tree) ==
    [written |-> TRUE,
     duration |-> tree.duration,
     rates |-> <<tree.seq_rate, tree.video_rate, tree.gen_rate, tree.tc_rate>>,
     gen_duration |-> tree.gen_duration, gen_end |-> tree.gen_end,
     gen_out |-> tree.gen_out,
     gen_markers |-> [i \in 1..Len(tree.gen_markers) |->
                        WrittenMarker(tree.gen_markers[i])],
     seq_markers |-> [i \in 1..Len(tree.seq_markers) |->
                        WrittenMarker(tree.seq_markers[i])]]

NoFile == [written |-> FALSE, duration |-> 0, rates |-> << >>,
           gen_duration |-> 0, gen_end |-> 0, gen_out |-> 0,
           gen_markers |-> << >>, seq_markers |-> << >>]

\* An exception nobody catches ends the interpreter with status 1
Crash(exc) ==
    /\ pc' = "crashed"
    /\ exception' = exc
    /\ exit_code' = 1

\* Lines 188-302: the empty-list check and the tree up to the first loop
EmitStart ==
    /\ pc = "emit_start"
    /\ IF e_args.timestamps = << >>
       THEN /\ emit_ret' = "False"
            /\ pc' = Return("main_emitted")
            /\ UNCHANGED xml
       ELSE /\ xml' = XmlSkeleton(e_args.timestamps, e_args.fps)
            /\ pc' = "emit_gen_markers"
            /\ UNCHANGED emit_ret
    /\ UNCHANGED <<envVars, caller, exception, parseVars, mainVars, resolveVars,
                   e_args, out_file>>

\* One iteration of the loop of lines 305-314; color_name.lower() raises
\* AttributeError unless the colour is a str
EmitGenMarker ==
    /\ pc = "emit_gen_markers"
    /\ Len(xml.gen_markers) < Len(e_args.timestamps)
    /\ LET t == e_args.timestamps[Len(xml.gen_markers) + 1]
       IN  IF t.color.t # "str"
           THEN /\ Crash("AttributeError")
                /\ UNCHANGED <<xml, fps, output_file, video_file, emit_calls>>
           ELSE /\ xml' = [xml EXCEPT !.gen_markers =
                             Append(@, MarkerElement(t, e_args.fps))]
                /\ UNCHANGED <<pc, exception, mainVars>>
    /\ UNCHANGED <<envVars, caller, parseVars, resolveVars, e_args, emit_ret,
                   out_file>>

\* Lines 316-339 between the loops
EmitGenMarkersDone ==
    /\ pc = "emit_gen_markers"
    /\ Len(xml.gen_markers) = Len(e_args.timestamps)
    /\ pc' = "emit_seq_markers"
    /\ UNCHANGED <<envVars, caller, exception, parseVars, mainVars, resolveVars,
                   emitVars>>

\* One iteration of the loop of lines 342-351
EmitSeqMarker ==
    /\ pc = "emit_seq_markers"
    /\ Len(xml.seq_markers) < Len(e_args.timestamps)
    /\ LET t == e_args.timestamps[Len(xml.seq_markers) + 1]
       IN  xml' = [xml EXCEPT !.seq_markers =
                     Append(@, MarkerElement(t, e_args.fps))]
    /\ UNCHANGED <<envVars, pc, caller, exception, parseVars, mainVars,
                   resolveVars, e_args, emit_ret, out_file>>

\* Lines 353-360: ET.tostring raises TypeError on a text it cannot
\* serialise, minidom.parseString raises ExpatError on an illegal character
EmitSerialize ==
    /\ pc = "emit_seq_markers"
    /\ Len(xml.seq_markers) = Len(e_args.timestamps)
    /\ LET texts == {xml.gen_markers[i].comment : i \in 1..Len(xml.gen_markers)}
                    \cup {xml.gen_markers[i].name : i \in 1..Len(xml.gen_markers)}
       IN  IF \E v \in texts : ~Serializable(v)
           THEN /\ Crash("TypeError")
                /\ UNCHANGED <<fps, output_file, video_file, emit_calls>>
           ELSE IF \E v \in texts : ~WellFormed(v)
           THEN /\ Crash("ExpatError")
                /\ UNCHANGED <<fps, output_file, video_file, emit_calls>>
           ELSE /\ pc' = "emit_write"
                /\ UNCHANGED <<exception, mainVars>>
    /\ UNCHANGED <<envVars, caller, parseVars, resolveVars, emitVars>>

\* Lines 362-369: the write, whose failure is caught and returns False
EmitWrite ==
    /\ pc = "emit_write"
    /\ IF out_writable
       THEN /\ out_file' = [path |-> e_args.output_path, doc |-> FinalXml(xml)]
            /\ emit_ret' = "True"
       ELSE /\ emit_ret' = "False"
            /\ UNCHANGED out_file
    /\ pc' = Return("main_emitted")
    /\ UNCHANGED <<envVars, caller, exception, parseVars, mainVars, resolveVars,
                   e_args, xml>>


(***************************************************************************)
(* os.path on POSIX paths                                                  *)
(***************************************************************************)
\* The index of the last occurrence of c in s, 0 if there is none
LastIndexOf(c, s) ==
    IF InSeq(c, s)
    THEN CHOOSE i \in 1..Len(s) : s[i] = c /\ \A j \in (i + 1)..Len(s) : s[j] # c
    ELSE 0

\* os.path.basename
Basename(path) == SubSeq(path, LastIndexOf("/", path) + 1, Len(path))

\* os.path.splitext(path)[0]: the extension starts at the last dot of the
\* last component, unless only dots precede it there
SplitextRoot(path) ==
    LET sep == LastIndexOf("/", path)
        dot == LastIndexOf(".", path)
    IN  IF dot > sep /\ \E i \in (sep + 1)..(dot - 1) : path[i] # "."
        THEN SubSeq(path, 1, dot - 1)
        ELSE path

\* os.path.join(a, b)
PathJoin(a, b) ==
    IF b # << >> /\ b[1] = "/" THEN b
    ELSE IF a = << >> \/ a[Len(a)] = "/" THEN a \o b
    ELSE a \o <<"/">> \o b

MarkersSuffix == <<"_","m","a","r","k","e","r","s",".","x","m","l">>

(***************************************************************************)
(* find_latest_video_file                                                  *)
(***************************************************************************)
\* video_extensions (line 136)
video_extensions == {<<".","m","p","4">>, <<".","m","k","v">>, <<".","f","l","v">>,
                     <<".","m","o","v">>, <<".","a","v","i">>, <<".","t","s">>}

\* filename.lower().endswith(video_extensions)
IsVideoName(filename) == \E ext \in video_extensions : EndsWith(Lower(filename), ext)

\* datetime.strptime(metadata_timestamp, "%Y-%m-%d %H:%M:%S").timestamp():
\* the library's result for the timestamp strings of the model, in seconds
\* after 2024-01-01 00:00:00 local time; any other string raises
TimestampEpoch ==
    ("2024-01-01 00:10:00" :> 600) @@ ("2024-01-01 01:00:00" :> 3600)

Strptime(t) ==
    IF t \in DOMAIN TimestampEpoch
    THEN [none |-> FALSE, epoch |-> TimestampEpoch[t]]
    ELSE [none |-> TRUE, epoch |-> 0]

\* os.path.exists(recording_dir)
PathExists(fs, dir) == fs.exists /\ dir = fs.path

\* The loop of lines 148-153 over os.listdir, in listing order
RECURSIVE ScanDir(_, _)
ScanDir(dir, entries) ==
    IF entries = << >> THEN << >>
    ELSE (IF IsVideoName(entries[1].name)
          THEN <<[filepath |-> PathJoin(dir, entries[1].name),
                  mtime |-> entries[1].mtime]>>
          ELSE << >>) \o ScanDir(dir, Tail(entries))

\* list.sort(key=mtime, reverse=True): stable, so files of equal mtime keep
\* their listing order
RECURSIVE InsertByMtime(_, _)
InsertByMtime(f, sorted) ==
    IF sorted = << >> THEN <<f>>
    ELSE IF sorted[1].mtime >= f.mtime
    THEN <<sorted[1]>> \o InsertByMtime(f, Tail(sorted))
    ELSE <<f>> \o sorted

RECURSIVE SortNewestFirst(_)
SortNewestFirst(files) ==
    IF files = << >> THEN << >>
    ELSE InsertByMtime(files[Len(files)],
                       SortNewestFirst(SubSeq(files, 1, Len(files) - 1)))

Tolerance == 300

\* WithinTolerance with the bound included
WithinTolerance_Inclusive(mtime, epoch) == Abs(mtime - epoch) <= Tolerance

\* time_diff < 300 (lines 169-170)
WithinTolerance(mtime, epoch) == Abs(mtime - epoch) < Tolerance

NoPath == [none |-> TRUE, path |-> << >>]

SomePath(path) == [none |-> FALSE, path |-> path]

ResolveReturn(value) ==
    /\ resolve_ret' = value
    /\ pc' = Return("main_resolved")

\* Lines 132-143: the directory check and the timestamp parse
ResolveStart ==
    /\ pc = "resolve_start"
    /\ IF recording_dir = << >> \/ ~PathExists(rec_fs, recording_dir)
       THEN /\ ResolveReturn(NoPath)
            /\ UNCHANGED metadata_time
       ELSE /\ metadata_time' = Strptime(metadata_timestamp)
            /\ pc' = "resolve_scan"
            /\ UNCHANGED resolve_ret
    /\ UNCHANGED <<envVars, caller, exception, parseVars, mainVars, recording_dir,
                   metadata_timestamp, video_files, scan_idx, emitVars>>

\* Lines 145-162: the scan (any exception in it returns None), the empty
\* check and the sort
ResolveScan ==
    /\ pc = "resolve_scan"
    /\ LET found == ScanDir(recording_dir, rec_fs.entries)
       IN  IF rec_fs.scan_fails \/ found = << >>
           THEN /\ ResolveReturn(NoPath)
                /\ UNCHANGED <<video_files, scan_idx>>
           ELSE /\ video_files' = SortNewestFirst(found)
                /\ scan_idx' = 1
                /\ pc' = "resolve_match"
                /\ UNCHANGED resolve_ret
    /\ UNCHANGED <<envVars, caller, exception, parseVars, mainVars, recording_dir,
                   metadata_timestamp, metadata_time, emitVars>>

\* One iteration of the loop of lines 168-171
ResolveMatch ==
    /\ pc = "resolve_match"
    /\ ~metadata_time.none
    /\ scan_idx <= Len(video_files)
    /\ IF WithinTolerance(video_files[scan_idx].mtime, metadata_time.epoch)
       THEN /\ ResolveReturn(SomePath(video_files[scan_idx].filepath))
            /\ UNCHANGED scan_idx
       ELSE /\ scan_idx' = scan_idx + 1
            /\ UNCHANGED <<pc, resolve_ret>>
    /\ UNCHANGED <<envVars, caller, exception, parseVars, mainVars, recording_dir,
                   metadata_timestamp, metadata_time, video_files, emitVars>>

\* Line 174: no timestamp, or no file within the tolerance
ResolveFallback ==
    /\ pc = "resolve_match"
    /\ metadata_time.none \/ scan_idx > Len(video_files)
    /\ ResolveReturn(SomePath(video_files[1].filepath))
    /\ UNCHANGED <<envVars, caller, exception, parseVars, mainVars, recording_dir,
                   metadata_timestamp, metadata_time, video_files, scan_idx,
                   emitVars>>


(***************************************************************************)
(* main                                                                    *)
(***************************************************************************)
\* type=float applied to the --fps text n/d (line 44); the default 60 is
\* the text 60/1
FloatOfDecimal(n, d) == DoubleDivInts(n, d)

Exit(code) ==
    /\ pc' = "exited"
    /\ exit_code' = code

\* bool(metadata): a dict is true when it holds a key
DictTruthy(md) == md.keys # {}

\* Lines 373-382: the call of parse_timestamps
MainStart ==
    /\ pc = "main_start"
    /\ pc' = "parse_open"
    /\ caller' = "main"
    /\ UNCHANGED <<envVars, exception, parseVars, mainVars, resolveVars, emitVars>>

\* NoMarkers with the `if not timestamps` return of lines 387-389 left out
NoMarkers_OnlyNone(ret) == ret.none

\* `timestamps is None` (line 384) or `not timestamps` (line 387)
NoMarkers(ret) == ret.none \/ ret.timestamps = << >>

\* Lines 384-401: the two early returns, then the frame rate; the division
\* raises ZeroDivisionError on fps_den = 0
MainParsed ==
    /\ pc = "main_parsed"
    /\ IF NoMarkers(parse_ret)
       THEN /\ Exit(1)
            /\ UNCHANGED <<fps, exception>>
       ELSE IF /\ DictTruthy(parse_ret.metadata)
               /\ "fps_num" \in parse_ret.metadata.keys
               /\ "fps_den" \in parse_ret.metadata.keys
       THEN IF parse_ret.metadata.fps_den = 0
            THEN /\ Crash("ZeroDivisionError")
                 /\ UNCHANGED fps
            ELSE /\ fps' = DoubleDivInts(parse_ret.metadata.fps_num,
                                         parse_ret.metadata.fps_den)
                 /\ pc' = "main_output"
                 /\ UNCHANGED <<exit_code, exception>>
       ELSE /\ fps' = args.fps
            /\ pc' = "main_output"
            /\ UNCHANGED <<exit_code, exception>>
    /\ UNCHANGED <<envVars, caller, parseVars, output_file, video_file,
                   emit_calls, resolveVars, emitVars>>

\* `not output_file`: None or the empty string
Falsy(path) == path.none \/ path.path = << >>

\* os.path.splitext(args.input)[0] + '_markers.xml'
InputStemOutput == SomePath(SplitextRoot(args.input) \o MarkersSuffix)

\* FallbackOutput that takes the input stem even when a path was given
FallbackOutput_Always(current) == InputStemOutput

\* Lines 424-426 and 430-432
FallbackOutput(current) == IF Falsy(current) THEN InputStemOutput ELSE current

\* Lines 403-414 and 428-433: with recording_path and timestamp in the
\* metadata the resolver is called, otherwise the path is settled here
MainOutput ==
    /\ pc = "main_output"
    /\ IF /\ DictTruthy(parse_ret.metadata)
          /\ "recording_path" \in parse_ret.metadata.keys
          /\ "timestamp" \in parse_ret.metadata.keys
       THEN /\ output_file' = args.output
            /\ recording_dir' = parse_ret.metadata.recording_path
            /\ metadata_timestamp' = parse_ret.metadata.timestamp
            /\ pc' = "resolve_start"
       ELSE /\ output_file' = FallbackOutput(args.output)
            /\ pc' = "main_preview"
            /\ UNCHANGED <<recording_dir, metadata_timestamp>>
    /\ UNCHANGED <<envVars, caller, exception, parseVars, fps, video_file,
                   exit_code, emit_calls, metadata_time, video_files, scan_idx,
                   resolve_ret, emitVars>>

\* os.path.join(recording_dir, f"{video_basename}_markers.xml") (lines 418-419)
AutoOutput(dir, video) ==
    SomePath(PathJoin(dir, SplitextRoot(Basename(video)) \o MarkersSuffix))

\* Lines 414-427: the resolver's result decides the output path
MainResolved ==
    /\ pc = "main_resolved"
    /\ video_file' = resolve_ret
    /\ output_file' = IF ~resolve_ret.none /\ resolve_ret.path # << >>
                      THEN AutoOutput(recording_dir, resolve_ret.path)
                      ELSE FallbackOutput(output_file)
    /\ pc' = "main_preview"
    /\ UNCHANGED <<envVars, caller, exception, parseVars, fps, exit_code,
                   emit_calls, resolveVars, emitVars>>

\* format(v, '<30'): str and numbers take the format, None, lists and dicts
\* raise TypeError
Formattable(v) == v.t \in {"str", "int", "float", "bool", "inf", "nan"}

\* The preview loop (lines 438-444): {ts['comment']:<30} and
\* {ts['name'] or 'no name':<15}
PreviewOk(ts) ==
    \A i \in 1..Len(ts) :
        /\ Formattable(ts[i].comment)
        /\ Truthy(ts[i].name) => Formattable(ts[i].name)

\* Lines 435-455: the preview, then the call of create_premiere_xml
MainPreview ==
    /\ pc = "main_preview"
    /\ IF ~PreviewOk(parse_ret.timestamps)
       THEN /\ Crash("TypeError")
            /\ UNCHANGED <<e_args, emit_calls>>
       ELSE /\ e_args' = [timestamps |-> parse_ret.timestamps,
                          output_path |-> output_file.path, fps |-> fps]
            /\ emit_calls' = emit_calls + 1
            /\ pc' = "emit_start"
            /\ UNCHANGED <<exit_code, exception>>
    /\ UNCHANGED <<envVars, caller, parseVars, fps, output_file, video_file,
                   resolveVars, xml, emit_ret, out_file>>

\* Lines 457-468
MainEmitted ==
    /\ pc = "main_emitted"
    /\ Exit(IF emit_ret = "True" THEN 0 ELSE 1)
    /\ UNCHANGED <<envVars, caller, exception, parseVars, fps, output_file,
                   video_file, emit_calls, resolveVars, emitVars>>


(***************************************************************************)
(* Initial states: the inputs of each function, drawn from bounded sets.   *)
(***************************************************************************)
\* All sequences over S of length at most n
SeqsUpTo(S, n) == UNION {[1..k -> S] : k \in 0..n}

\* All sequences over S of length at most n without a repeated name
ListingsUpTo(S, n) ==
    {l \in SeqsUpTo(S, n) :
        \A i, j \in 1..Len(l) : i # j => l[i].name # l[j].name}

RecDir == <<"/","r">>

InputPath == <<"i",".","j","s","o","n","l">>

OutputArg == <<"o",".","x","m","l">>

TimestampText == "2024-01-01 00:10:00"

NoOutput == [path |-> << >>, doc |-> NoFile]

NoFs == [exists |-> FALSE, path |-> RecDir, scan_fails |-> FALSE, entries |-> << >>]

NoArgs == [input |-> InputPath, output |-> NoPath, fps |-> FloatOfDecimal(60, 1)]

NoEmitArgs == [timestamps |-> << >>, output_path |-> << >>, fps |-> DoubleZero]

NoParse == [none |-> TRUE, metadata |-> EmptyDict, timestamps |-> << >>]

\* The locals of every function before it runs
InitLocals ==
    /\ exception = ""
    /\ line_num = 0
    /\ timestamps = << >>
    /\ metadata = EmptyDict
    /\ parse_ret = NoParse
    /\ fps = DoubleZero
    /\ output_file = NoPath
    /\ video_file = NoPath
    /\ exit_code = -1
    /\ emit_calls = 0
    /\ metadata_time = [none |-> TRUE, epoch |-> 0]
    /\ video_files = << >>
    /\ scan_idx = 0
    /\ resolve_ret = NoPath
    /\ xml = NoXml
    /\ emit_ret = ""
    /\ out_file = NoOutput

Str_a == <<"a">>

MdFull == MD({"recording_path", "timestamp", "fps_num", "fps_den"},
             RecDir, TimestampText, 30000, 1001)

MdOther == MD({"recording_path", "fps_num", "fps_den"}, RecDir, "", 60, 1)

\* ---- parse_timestamps alone ----
MaxLines == 3

ParseLines ==
    { BlankLine, InvalidLine, ScalarLine,
      ContainerLine({}), ContainerLine({"metadata"}), ContainerLine({"timestamp_ms"}),
      MarkerLine(JInt(1500), JStr(Str_a), JStr(Str_a), JStr(<<"R","E","D">>)),
      MarkerLine(JInt(-5), Absent, Absent, Absent),
      MarkerLine(JFloat(27, 10), Absent, Absent, JInt(5)),
      MarkerLine(JStr(<<" ","1","2","\n">>), JNull, Absent, Absent),
      MarkerLine(JStr(<<"1",".","5">>), Absent, Absent, Absent),
      MarkerLine(JNull, Absent, Absent, Absent),
      MarkerLine(JInf, Absent, Absent, Absent),
      MarkerLine(Absent, JStr(Str_a), Absent, Absent),
      MetadataLine(MdFull), MetadataLine(MdOther),
      BadMetadataLine(JInt(5)),
      Line("json", "dict", {}, JDict, EmptyDict, JInt(7), Absent, Absent, Absent) }

InitParse ==
    /\ pc = "parse_open"
    /\ caller = "none"
    /\ args = NoArgs
    /\ input_file \in
         {[state |-> "missing", lines |-> << >>],
          [state |-> "unreadable", lines |-> << >>]}
         \cup {[state |-> "ok", lines |-> l] : l \in SeqsUpTo(ParseLines, MaxLines)}
    /\ rec_fs = NoFs
    /\ out_writable = TRUE
    /\ recording_dir = << >>
    /\ metadata_timestamp = ""
    /\ e_args = NoEmitArgs
    /\ InitLocals

NextParse == ParseOpen \/ ParseReadLine \/ ParseReturn

SpecParse == InitParse /\ [][NextParse]_vars

\* ---- find_latest_video_file alone ----
MaxFiles == 3

FileNames == {<<"a",".","m","p","4">>, <<"B",".","M","K","V">>,
              <<"c",".","t","s">>, <<"n",".","t","x","t">>}

\* Modification times, in seconds after 2024-01-01 00:00:00 local time:
\* 300 s and 299 s on either side of 00:10:00, and one hour later
Mtimes == {300, 301, 899, 900, 4200}

DirEntries == [name : FileNames, mtime : Mtimes]

InitResolve ==
    /\ pc = "resolve_start"
    /\ caller = "none"
    /\ args = NoArgs
    /\ input_file = [state |-> "missing", lines |-> << >>]
    /\ out_writable = TRUE
    /\ \E ex \in BOOLEAN, sf \in BOOLEAN :
         \E l \in ListingsUpTo(DirEntries, MaxFiles) :
            /\ (~ex \/ sf) => l = << >>
            /\ rec_fs = [exists |-> ex, path |-> RecDir, scan_fails |-> sf,
                         entries |-> l]
    /\ recording_dir \in {RecDir, << >>}
    /\ metadata_timestamp \in {TimestampText, "yesterday"}
    /\ e_args = NoEmitArgs
    /\ InitLocals

NextResolve == ResolveStart \/ ResolveScan \/ ResolveMatch \/ ResolveFallback

SpecResolve == InitResolve /\ [][NextResolve]_vars

\* ---- create_premiere_xml alone ----
MaxMarkers == 2

Marker(ms, comment, name, color) ==
    [timestamp_ms |-> ms, comment |-> comment, name |-> name, color |-> color]

EmitMarkers ==
    { Marker(0, JStr(<< >>), JStr(<< >>), JStr(Blue)),
      Marker(4100, JStr(Str_a), JStr(<<"n">>), JStr(<<"R","E","D">>)),
      Marker(1500, JStr(<<"x","\r","\n","y">>), JNull, JStr(<<"z","z">>)),
      Marker(2050, JInt(0), JStr(<< >>), JStr(<<"c","y","a","n">>)),
      Marker(100, JStr(Str_a), JStr(<< >>), JInt(5)),
      Marker(200, JStr(<<"<U+0001>">>), JStr(<< >>), JStr(Blue)),
      Marker(300, JInt(5), JStr(<< >>), JStr(Blue)),
      Marker(-5, JStr(<< >>), JStr(<< >>), JNull) }

EmitRates == {FloatOfDecimal(60, 1), FloatOfDecimal(30, 1),
              FloatOfDecimal(2997, 100), DoubleDivInts(30000, 1001)}

InitEmit ==
    /\ pc = "emit_start"
    /\ caller = "none"
    /\ args = NoArgs
    /\ input_file = [state |-> "missing", lines |-> << >>]
    /\ rec_fs = NoFs
    /\ out_writable \in BOOLEAN
    /\ recording_dir = << >>
    /\ metadata_timestamp = ""
    /\ e_args \in [timestamps : SeqsUpTo(EmitMarkers, MaxMarkers),
                   output_path : {OutputArg}, fps : EmitRates]
    /\ InitLocals

NextEmit ==
    EmitStart \/ EmitGenMarker \/ EmitGenMarkersDone \/ EmitSeqMarker
    \/ EmitSerialize \/ EmitWrite

SpecEmit == InitEmit /\ [][NextEmit]_vars

\* ---- the whole program ----
MaxMainLines == 2

MainLines ==
    { InvalidLine,
      MarkerLine(JInt(0), Absent, Absent, Absent),
      MarkerLine(JInt(4100), JStr(Str_a), JStr(Str_a), JStr(<<"R","E","D">>)),
      MarkerLine(JInt(9), JNull, Absent, Absent),
      MetadataLine(MdFull), MetadataLine(MdOther),
      MetadataLine(MD({"fps_num", "fps_den"}, << >>, "", 30, 0)),
      BadMetadataLine(JInt(5)) }

MainFs ==
    { NoFs,
      [exists |-> TRUE, path |-> RecDir, scan_fails |-> TRUE, entries |-> << >>],
      [exists |-> TRUE, path |-> RecDir, scan_fails |-> FALSE,
       entries |-> <<[name |-> <<"n",".","t","x","t">>, mtime |-> 600]>>],
      [exists |-> TRUE, path |-> RecDir, scan_fails |-> FALSE,
       entries |-> <<[name |-> <<"c",".","t","s">>, mtime |-> 4200]>>],
      [exists |-> TRUE, path |-> RecDir, scan_fails |-> FALSE,
       entries |-> <<[name |-> <<"a",".","m","p","4">>, mtime |-> 600],
                     [name |-> <<"B",".","M","K","V">>, mtime |-> 4200]>>] }

Init ==
    /\ pc = "main_start"
    /\ caller = "none"
    /\ args \in [input : {InputPath},
                 output : {NoPath, SomePath(<< >>), SomePath(OutputArg)},
                 fps : {FloatOfDecimal(60, 1), FloatOfDecimal(2997, 100)}]
    /\ input_file \in
         {[state |-> "missing", lines |-> << >>]}
         \cup {[state |-> "ok", lines |-> l] : l \in SeqsUpTo(MainLines, MaxMainLines)}
    /\ rec_fs \in MainFs
    /\ out_writable \in BOOLEAN
    /\ recording_dir = << >>
    /\ metadata_timestamp = ""
    /\ e_args = NoEmitArgs
    /\ InitLocals

Next ==
    \/ MainStart \/ MainParsed \/ MainOutput \/ MainResolved \/ MainPreview
    \/ MainEmitted
    \/ ParseOpen \/ ParseReadLine \/ ParseReturn
    \/ ResolveStart \/ ResolveScan \/ ResolveMatch \/ ResolveFallback
    \/ EmitStart \/ EmitGenMarker \/ EmitGenMarkersDone \/ EmitSeqMarker
    \/ EmitSerialize \/ EmitWrite

Spec == Init /\ [][Next]_vars


(***************************************************************************)
(* Properties.                                                             *)
(***************************************************************************)
\* A line that is a marker record with a usable offset: a JSON object
\* without a metadata key whose timestamp_ms int() accepts
WellFormedMarkerLine(l) ==
    /\ l.text = "json"
    /\ l.top = "dict"
    /\ l.metadata.t = "absent"
    /\ l.timestamp_ms.t # "absent"
    /\ l.timestamp_ms.t \in {"int", "bool", "float", "str"}
    /\ l.timestamp_ms.t = "str" => IntFromStr(l.timestamp_ms.s).exc = ""

\* A JSON object holding a metadata key
IsMetadataRecord(l) == l.text = "json" /\ l.top = "dict" /\ l.metadata.t # "absent"

MarkerLinesOf(lines) == SelectSeq(lines, WellFormedMarkerLine)

OffsetsOf(ts) == [i \in 1..Len(ts) |-> ts[i].timestamp_ms]

ParseDone == pc = "done" /\ input_file.state = "ok"

\* C1: parse_timestamps on a readable file never returns (None, None),
\* whatever its lines are, and returns exactly one marker per well-formed
\* marker line, in input order.
C1_NoLineFailureIsFatal ==
    ParseDone =>
        /\ ~parse_ret.none
        /\ Len(parse_ret.timestamps) = Len(MarkerLinesOf(input_file.lines))
        /\ \A i \in 1..Len(parse_ret.timestamps) :
              parse_ret.timestamps[i].timestamp_ms =
                  PyInt(MarkerLinesOf(input_file.lines)[i].timestamp_ms).val

\* C6: every marker parse_timestamps holds or returns has a non-negative
\* integer timestamp_ms.
C6_OffsetsNonNegative ==
    /\ \A i \in 1..Len(timestamps) : timestamps[i].timestamp_ms >= 0
    /\ \A i \in 1..Len(parse_ret.timestamps) :
          parse_ret.timestamps[i].timestamp_ms >= 0

MetadataIndexes(lines) == {i \in 1..Len(lines) : IsMetadataRecord(lines[i])}

\* The metadata of the first / the last record holding a metadata key
FirstMetadata(lines) ==
    IF MetadataIndexes(lines) = {} THEN EmptyDict
    ELSE lines[CHOOSE i \in MetadataIndexes(lines) :
                   \A j \in MetadataIndexes(lines) : i <= j].md

LastMetadata(lines) ==
    IF MetadataIndexes(lines) = {} THEN EmptyDict
    ELSE lines[CHOOSE i \in MetadataIndexes(lines) :
                   \A j \in MetadataIndexes(lines) : i >= j].md

ExactFrames(ms, f) ==
    LET prod == BigMul(BigFromNat(ms), f.m)
        whole == IF f.e >= 0 THEN BigShiftLeft(prod, f.e)
                 ELSE BigShiftRight(prod, -f.e).q
    IN  BigToNat(BigDivSmall(whole, 1000).q)

\* create_premiere_xml has built the tree's header
TreeBuilt ==
    \/ pc \in {"emit_gen_markers", "emit_seq_markers", "emit_write"}
    \/ pc \in {"done", "crashed"} /\ xml # NoXml

\* create_premiere_xml has returned or raised
EmitEnded == pc \in {"done", "crashed"}

\* C2: for every non-empty marker list (comment, name and colour being
\* strings) and a writable output path, the written document holds, under
\* the generator item and under the sequence, one marker element per input
\* marker, in input order, the two of each marker carrying the same
\* comment, name, colour code and in-frame, with out = -1.
C2_TwoMarkersPerInput ==
    (/\ EmitEnded
     /\ e_args.timestamps # << >>
     /\ out_writable
     /\ \A i \in 1..Len(e_args.timestamps) :
           /\ e_args.timestamps[i].comment.t = "str"
           /\ e_args.timestamps[i].name.t = "str"
           /\ e_args.timestamps[i].color.t = "str") =>
        /\ out_file.doc.written
        /\ Len(out_file.doc.gen_markers) = Len(e_args.timestamps)
        /\ Len(out_file.doc.seq_markers) = Len(e_args.timestamps)
        /\ \A i \in 1..Len(out_file.doc.gen_markers) :
              /\ out_file.doc.gen_markers[i] = out_file.doc.seq_markers[i]
              /\ out_file.doc.gen_markers[i].out = -1
              /\ out_file.doc.gen_markers[i].in =
                    ms_to_frames(e_args.timestamps[i].timestamp_ms, e_args.fps)
              /\ out_file.doc.gen_markers[i].comment =
                    XmlText(e_args.timestamps[i].comment)

\* C3: for every non-empty marker list and positive frame rate, the
\* sequence duration, and the generator item's duration, end and out, are
\* floor((max offset + 60000) / 1000 * fps), and no emitted marker's
\* in-frame exceeds it.
C3_DurationIsExactFrame ==
    (TreeBuilt /\ ~e_args.fps.neg /\ e_args.fps # DoubleZero) =>
        /\ xml.duration =
              ExactFrames(MaxTimestamp(e_args.timestamps) + 60000, e_args.fps)
        /\ xml.gen_duration = xml.duration
        /\ xml.gen_end = xml.duration
        /\ xml.gen_out = xml.duration
        /\ \A i \in 1..Len(xml.gen_markers) : xml.gen_markers[i].in <= xml.duration
        /\ \A i \in 1..Len(xml.seq_markers) : xml.seq_markers[i].in <= xml.duration

\* The code of a colour value: its own for one of the 8 names (letter case
\* aside), that of "blue" for any other value
ClaimedColorCode(v) ==
    IF v.t = "str" /\ Lower(v.s) \in DOMAIN COLOR_MAP
    THEN COLOR_MAP[Lower(v.s)]
    ELSE COLOR_MAP[Blue]

\* C7: whatever the colour value of a marker, emission does not fail
\* because of it, and both marker elements carry the code of "blue" unless
\* the value is one of the 8 names, which gives that name's code.
C7_UnknownColorIsBlue ==
    /\ exception # "AttributeError"
    /\ \A i \in 1..Len(xml.gen_markers) :
          xml.gen_markers[i].pproColor = ClaimedColorCode(e_args.timestamps[i].color)
    /\ \A i \in 1..Len(xml.seq_markers) :
          xml.seq_markers[i].pproColor = ClaimedColorCode(e_args.timestamps[i].color)
    /\ (pc = "emit_write" \/ pc = "done") =>
          (e_args.timestamps # << >> =>
              Len(xml.seq_markers) = Len(e_args.timestamps))

\* C4: with fps_num = 30000 and fps_den = 1001 in the metadata, main passes
\* their ratio to create_premiere_xml whatever --fps was, and the four rate
\* blocks have ntsc = TRUE and timebase = 30.
C4_NtscRateBlocks ==
    (/\ TreeBuilt
     /\ {"fps_num", "fps_den"} \subseteq parse_ret.metadata.keys
     /\ parse_ret.metadata.fps_num = 30000
     /\ parse_ret.metadata.fps_den = 1001) =>
        /\ e_args.fps = DoubleDivInts(30000, 1001)
        /\ \A r \in {xml.seq_rate, xml.video_rate, xml.gen_rate, xml.tc_rate} :
              r.ntsc /\ r.timebase = 30


\* main has the result of parse_timestamps
ParseReturned == pc \notin {"main_start", "parse_open", "parse_loop"}

ZeroMarkers == ParseReturned /\ (parse_ret.none \/ parse_ret.timestamps = << >>)

\* C5: once parse_timestamps has returned no marker (None, or an empty
\* list), create_premiere_xml is never called, no output file is written,
\* main goes nowhere but to its exit, and it exits with status 1.
C5_NoMarkersNoEmit ==
    ZeroMarkers =>
        /\ emit_calls = 0
        /\ ~out_file.doc.written
        /\ pc \in {"main_parsed", "exited"}
        /\ pc = "exited" => exit_code = 1
        /\ pc = "main_parsed" => ENABLED MainParsed

\* A readable file of two lines, none of them a marker, ended in exit 1
C5_Witness ==
    /\ pc = "exited"
    /\ exit_code = 1
    /\ ~parse_ret.none
    /\ parse_ret.timestamps = << >>
    /\ Len(input_file.lines) = 2
    /\ emit_calls = 0

\* main has settled output_file
OutputChosen ==
    \/ pc \in {"main_preview", "emit_start", "emit_gen_markers",
               "emit_seq_markers", "emit_write", "main_emitted"}
    \/ pc \in {"exited", "crashed"} /\ ~output_file.none

\* The resolver was called and returned a video file
VideoResolved == ~video_file.none

\* <recording_path>/<video basename without extension>_markers.xml
NameWithoutExtension(path) ==
    SubSeq(Basename(path), 1, LastIndexOf(".", Basename(path)) - 1)

AutoDetectedName ==
    SomePath(parse_ret.metadata.recording_path \o <<"/">>
             \o NameWithoutExtension(video_file.path) \o MarkersSuffix)

InputStemName ==
    SomePath(SubSeq(args.input, 1, LastIndexOf(".", args.input) - 1)
             \o MarkersSuffix)

ExplicitOutput == ~args.output.none /\ args.output.path # << >>

Candidates == {i \in 1..Len(rec_fs.entries) : IsVideoName(rec_fs.entries[i].name)}

DirUsable == recording_dir # << >> /\ rec_fs.exists /\ recording_dir = rec_fs.path

TimestampParses == metadata_timestamp \in DOMAIN TimestampEpoch

InTolerance(i) ==
    /\ TimestampParses
    /\ rec_fs.entries[i].mtime - TimestampEpoch[metadata_timestamp] < 300
    /\ TimestampEpoch[metadata_timestamp] - rec_fs.entries[i].mtime < 300

\* i is the first of S in descending modification-time order (files of
\* equal time in listing order)
NewestOf(S, i) ==
    /\ i \in S
    /\ \A j \in S : \/ rec_fs.entries[j].mtime < rec_fs.entries[i].mtime
                    \/ rec_fs.entries[j].mtime = rec_fs.entries[i].mtime /\ j >= i

=============================================================================
